---- MODULE Spec2Model ----
(***************************************************************************)
(* Model of the two Streamlit scripts of bb_mlb_inning_times:              *)
(*   src/mlb_inning_times_app.py   (variant "app")                         *)
(*   src/MLB_PkID_Export.py        (variant "export")                      *)
(* Both gather GamePk lines, call process_game per GamePk (fetch, then a   *)
(* min/max fold of the plays per (inning, halfInning)), and display and    *)
(* export the collected frames.  Python strings are sequences of character *)
(* codes, so that <, title(), strip() and int() are computed, not assumed. *)
(***************************************************************************)
EXTENDS Integers, Sequences, FiniteSets, TLC

VARIABLES
    variant,          \* which script runs: "app" or "export"
    jsonErrorCaught,  \* whether resp.json()'s decode error is a RequestException
    runs,             \* number of "Get Info" clicks handled in this session
    game_pks,         \* the merged GamePk list of the last click
    cache,            \* st.cache_data of process_game: GamePk -> <<>> or <<value>>
    fetches,          \* HTTP requests issued per GamePk in this session
    processed,        \* how many entries of game_pks the batch loop got through
    result_data,      \* the collected results of the last click
    display,          \* the frames handed to st.tabs / st.dataframe
    download,         \* what st.download_button offers
    status,           \* how the last click ended
    plays,            \* process_game: data["allPlays"]
    pi,               \* process_game: position of the for loop over plays
    times,            \* process_game: the dict times, in insertion order
    rows,             \* process_game: the rows of the returned DataFrame
    pc                \* process_game: "fold", "done", or "idle" outside it

vars == <<variant, jsonErrorCaught, runs, game_pks, cache, fetches, processed,
          result_data, display, download, status, plays, pi, times, rows, pc>>

batchVars == <<runs, game_pks, cache, fetches, processed, result_data, display,
               download, status>>

foldVars == <<plays, pi, times, rows, pc>>

(***************************************************************************)
(* Bounds of the model.                                                    *)
(***************************************************************************)
MaxPlays == 3
MaxPks == 3
MaxSessionPks == 2
MaxRuns == 2

(***************************************************************************)
(* Python str: a sequence of character codes.                              *)
(***************************************************************************)
IsUpper(c) == c \in 65..90
IsLower(c) == c \in 97..122
IsAlpha(c) == IsUpper(c) \/ IsLower(c)
IsDigit(c) == c \in 48..57
IsSpace(c) == c \in {9, 10, 11, 12, 13, 32}
ToUpper(c) == IF IsLower(c) THEN c - 32 ELSE c
ToLower(c) == IF IsUpper(c) THEN c + 32 ELSE c

\* a < b of two str: lexicographic by character code
StrLess(a, b) ==
    \E i \in 1..(Len(a) + 1) :
        /\ i <= Len(b)
        /\ \A j \in 1..(i - 1) : a[j] = b[j]
        /\ (i = Len(a) + 1 \/ a[i] < b[i])

\* str.title(): a letter that starts a run of letters is upper-cased, the
\* other letters are lower-cased
Title(s) ==
    [i \in 1..Len(s) |->
        IF i = 1 \/ ~IsAlpha(s[i - 1]) THEN ToUpper(s[i]) ELSE ToLower(s[i])]

RECURSIVE LStrip(_)
LStrip(s) == IF s # <<>> /\ IsSpace(Head(s)) THEN LStrip(Tail(s)) ELSE s

RECURSIVE RStrip(_)
RStrip(s) ==
    IF s # <<>> /\ IsSpace(s[Len(s)]) THEN RStrip(SubSeq(s, 1, Len(s) - 1)) ELSE s

\* str.strip()
Strip(s) == RStrip(LStrip(s))

\* str(n) of a non-negative int
RECURSIVE IntToStr(_)
IntToStr(n) ==
    IF n < 10 THEN <<48 + n>> ELSE IntToStr(n \div 10) \o <<48 + (n % 10)>>

\* whether int(s) returns (an optional sign, then digits) or raises ValueError
IsIntLiteral(s) ==
    LET d == IF s # <<>> /\ Head(s) \in {43, 45} THEN Tail(s) ELSE s
    IN  d # <<>> /\ \A i \in 1..Len(d) : IsDigit(d[i])

RECURSIVE DigitsValue(_)
DigitsValue(d) ==
    IF d = <<>> THEN 0
    ELSE 10 * DigitsValue(SubSeq(d, 1, Len(d) - 1)) + (d[Len(d)] - 48)

\* int(s), where IsIntLiteral(s)
IntOf(s) ==
    IF Head(s) = 45 THEN 0 - DigitsValue(Tail(s))
    ELSE IF Head(s) = 43 THEN DigitsValue(Tail(s))
    ELSE DigitsValue(s)

\* list.sort / sorted: stable, by the order lt, where lt[i][j] says that
\* s[i] is less than s[j] (an element's place is the number of elements
\* before it in the order, earlier equals included)
SortBy(s, lt) ==
    LET rank(i) ==
            1 + Cardinality({j \in 1..Len(s) : lt[j][i] \/ (j < i /\ ~lt[i][j])})
    IN  [k \in 1..Len(s) |-> s[CHOOSE i \in 1..Len(s) : rank(i) = k]]

(***************************************************************************)
(* The literals of the model.                                              *)
(***************************************************************************)
top == <<116, 111, 112>>
Top == <<84, 111, 112>>
bottom == <<98, 111, 116, 116, 111, 109>>
Bottom == <<66, 111, 116, 116, 111, 109>>
T0 == <<84, 48>>
T1 == <<84, 49>>
T2 == <<84, 50>>
T3 == <<84, 51>>

\* dict.get of an absent (or null) field is None; a present value v is <<v>>
None == <<>>
Some(v) == <<v>>

Play(inning, half, start, end) ==
    [inning |-> inning, halfInning |-> half, startTime |-> start, endTime |-> end]

Keys == {<<1, top>>, <<1, Top>>, <<1, bottom>>, <<2, top>>}
Spans == {<<T0, T1>>, <<T2, T3>>, <<T3, T0>>}

CompletePlays ==
    {Play(Some(k[1]), Some(k[2]), Some(s[1]), Some(s[2])) : k \in Keys, s \in Spans}

IncompletePlays ==
    { Play(None, Some(top), Some(T0), Some(T3)),
      Play(Some(1), None, Some(T0), Some(T3)),
      Play(Some(1), Some(top), None, Some(T3)),
      Play(Some(1), Some(top), Some(T0), None) }

Plays == CompletePlays \cup IncompletePlays

SeqsUpTo(S, n) == UNION {[1..k -> S] : k \in 0..n}

(***************************************************************************)
(* process_game: the fold of the plays and the rows of the frame.          *)
(***************************************************************************)
\* FoldPlay, were it to skip a play only when its inning is missing
ValueOr(x) == IF x = None THEN <<>> ELSE x[1]

FoldPlaySkipsOnlyNoInning(t, play) ==
    IF play.inning = None THEN t
    ELSE LET key == <<play.inning[1], ValueOr(play.halfInning)>>
             start == ValueOr(play.startTime)
             end == ValueOr(play.endTime)
         IN  IF \A i \in 1..Len(t) : t[i].key # key
             THEN Append(t, [key |-> key, start |-> start, end |-> end])
             ELSE [i \in 1..Len(t) |->
                     IF t[i].key # key THEN t[i]
                     ELSE [key |-> key,
                           start |-> IF StrLess(start, t[i].start)
                                     THEN start ELSE t[i].start,
                           end |-> IF StrLess(t[i].end, end)
                                   THEN end ELSE t[i].end]]

\* FoldPlay, were it to leave the start of an open window alone
FoldPlayKeepsFirstStart(t, play) ==
    IF \/ play.inning = None \/ play.halfInning = None
       \/ play.startTime = None \/ play.endTime = None
    THEN t
    ELSE LET key == <<play.inning[1], play.halfInning[1]>>
             end == play.endTime[1]
         IN  IF \A i \in 1..Len(t) : t[i].key # key
             THEN Append(t, [key |-> key, start |-> play.startTime[1], end |-> end])
             ELSE [i \in 1..Len(t) |->
                     IF t[i].key # key THEN t[i]
                     ELSE [t[i] EXCEPT !.end = IF StrLess(t[i].end, end)
                                               THEN end ELSE t[i].end]]

\* FoldPlay, were it to open a window with start and end exchanged
FoldPlayInsertsSwapped(t, play) ==
    IF \/ play.inning = None \/ play.halfInning = None
       \/ play.startTime = None \/ play.endTime = None
    THEN t
    ELSE LET key == <<play.inning[1], play.halfInning[1]>>
             start == play.startTime[1]
             end == play.endTime[1]
         IN  IF \A i \in 1..Len(t) : t[i].key # key
             THEN Append(t, [key |-> key, start |-> end, end |-> start])
             ELSE [i \in 1..Len(t) |->
                     IF t[i].key # key THEN t[i]
                     ELSE [key |-> key,
                           start |-> IF StrLess(start, t[i].start)
                                     THEN start ELSE t[i].start,
                           end |-> IF StrLess(t[i].end, end)
                                   THEN end ELSE t[i].end]]

\* the body of "for play in plays": skip, insert, or widen the window
FoldPlay(t, play) ==
    IF \/ play.inning = None \/ play.halfInning = None
       \/ play.startTime = None \/ play.endTime = None
    THEN t
    ELSE LET key == <<play.inning[1], play.halfInning[1]>>
             start == play.startTime[1]
             end == play.endTime[1]
         IN  IF \A i \in 1..Len(t) : t[i].key # key
             THEN Append(t, [key |-> key, start |-> start, end |-> end])
             ELSE [i \in 1..Len(t) |->
                     IF t[i].key # key THEN t[i]
                     ELSE [key |-> key,
                           start |-> IF StrLess(start, t[i].start)
                                     THEN start ELSE t[i].start,
                           end |-> IF StrLess(t[i].end, end)
                                   THEN end ELSE t[i].end]]

\* the whole loop over plays, from an empty dict
RECURSIVE Aggregate(_)
Aggregate(ps) ==
    IF ps = <<>> THEN <<>>
    ELSE FoldPlay(Aggregate(SubSeq(ps, 1, Len(ps) - 1)), ps[Len(ps)])

\* tuple order of the keys (inning, half): sorted(times.items())
KeyLess(a, b) ==
    \/ a.key[1] < b.key[1]
    \/ a.key[1] = b.key[1] /\ StrLess(a.key[2], b.key[2])

\* the order in which the rows are appended: times.items() in the app,
\* sorted(times.items()) in the export script
Items(t, v) ==
    IF v = "export"
    THEN SortBy(t, [i \in 1..Len(t) |-> [j \in 1..Len(t) |-> KeyLess(t[i], t[j])]])
    ELSE t

\* rows.append({...}) for every item
Rows(game_pk, t, v) ==
    LET items == Items(t, v)
    IN  [i \in 1..Len(items) |->
            [gamePk |-> game_pk,
             inning |-> items[i].key[1],
             halfInning |-> Title(items[i].key[2]),
             startTime |-> items[i].start,
             endTime |-> items[i].end]]

(***************************************************************************)
(* process_game on its own, one play per step: the specification of the    *)
(* claims about the fold.  The fetch has returned data with allPlays =     *)
(* plays; nothing of the batch driver moves.                               *)
(***************************************************************************)
Variants == {"app", "export"}

\* the GamePk "2"
FoldGamePk == <<50>>

NoDownload == [kind |-> "none", file_name |-> <<>>, csv |-> <<>>, sheets |-> <<>>]

InitFold ==
    /\ variant \in Variants
    /\ jsonErrorCaught = TRUE
    /\ runs = 0
    /\ game_pks = <<FoldGamePk>>
    /\ cache = <<>>
    /\ fetches = <<>>
    /\ processed = 0
    /\ result_data = <<>>
    /\ display = <<>>
    /\ download = NoDownload
    /\ status = "idle"
    /\ plays \in SeqsUpTo(Plays, MaxPlays)
    /\ pi = 1
    /\ times = <<>>
    /\ rows = <<>>
    /\ pc = "fold"

\* one iteration of "for play in plays"
FoldStep ==
    /\ pc = "fold"
    /\ pi <= Len(plays)
    /\ times' = FoldPlay(times, plays[pi])
    /\ pi' = pi + 1
    /\ UNCHANGED <<variant, jsonErrorCaught, batchVars, plays, rows, pc>>

\* the loop is over: build the rows and return the frame
BuildRows ==
    /\ pc = "fold"
    /\ pi > Len(plays)
    /\ rows' = Rows(FoldGamePk, times, variant)
    /\ pc' = "done"
    /\ UNCHANGED <<variant, jsonErrorCaught, batchVars, plays, pi, times>>

NextFold == FoldStep \/ BuildRows

SpecFold == InitFold /\ [][NextFold]_vars

(***************************************************************************)
(* The batch driver: one click of "Get Info" runs the script from the      *)
(* gathering of the GamePks to the download button.  status = "running"    *)
(* while the loop "for gp in game_pks" is at entry processed + 1.          *)
(***************************************************************************)
pk10 == <<49, 48>>
pk2 == <<50>>
pk30 == <<51, 48>>
pkabc == <<97, 98, 99>>

\* the lines a user may type or upload: "10", " 2", "30", "abc", " "
RawLines == {pk10, <<32>> \o pk2, pk30, pkabc, <<32>>}

GamePks == {Strip(l) : l \in RawLines} \ {<<>>}

\* [line.strip() for line in lines if line.strip()]
RECURSIVE StripLines(_)
StripLines(ls) ==
    IF ls = <<>> THEN <<>>
    ELSE IF Strip(Head(ls)) # <<>> THEN <<Strip(Head(ls))>> \o StripLines(Tail(ls))
    ELSE StripLines(Tail(ls))

\* game_pks: the text-area lines, then the lines of the uploaded file
Gather(text, file) == StripLines(text) \o StripLines(file)

PayloadA ==
    << Play(Some(2), Some(top), Some(T0), Some(T1)),
       Play(Some(1), Some(bottom), Some(T2), Some(T3)),
       Play(Some(1), Some(top), Some(T2), Some(T3)),
       Play(Some(1), Some(top), Some(T0), Some(T1)),
       Play(Some(1), Some(top), None, Some(T3)) >>

PayloadB == << Play(Some(1), Some(top), Some(T1), Some(T2)) >>

\* what resp.json() can return: JSON that is no object, or an object whose
\* allPlays (default []) is a list of plays
NotADict == [isDict |-> FALSE, allPlays |-> <<>>]
Datas ==
    {NotADict} \cup {[isDict |-> TRUE, allPlays |-> ps] : ps \in {<<>>, PayloadA, PayloadB}}

Uncached == <<>>
ReturnedNone == [none |-> TRUE, df |-> <<>>]
Returned(df) == [none |-> FALSE, df |-> df]

NoDisplay == [tabs |-> <<>>, frames |-> <<>>]

\* the rest of process_game once resp.json() has returned a dict
Frame(game_pk, data, v) == Rows(game_pk, Aggregate(data.allPlays), v)

\* Collect, were it to keep one entry per GamePk
CollectOncePerGamePk(rd, gp, r, v) ==
    IF r.none \/ r.df = <<>> \/ (\E i \in 1..Len(rd) : rd[i].df[1].gamePk = gp) THEN rd
    ELSE IF v = "app" THEN Append(rd, [gp |-> gp, df |-> r.df])
    ELSE Append(rd, [df |-> r.df])

\* result_data.append((gp, df)) in the app, result_dfs.append(df) in the
\* export script, "if df is not None and not df.empty"
Collect(rd, gp, r, v) ==
    IF r.none \/ r.df = <<>> THEN rd
    ELSE IF v = "app" THEN Append(rd, [gp |-> gp, df |-> r.df])
    ELSE Append(rd, [df |-> r.df])

InitBatch ==
    /\ variant \in Variants
    /\ jsonErrorCaught \in BOOLEAN
    /\ runs = 0
    /\ game_pks = <<>>
    /\ cache = [g \in GamePks |-> Uncached]
    /\ fetches = [g \in GamePks |-> 0]
    /\ processed = 0
    /\ result_data = <<>>
    /\ display = NoDisplay
    /\ download = NoDownload
    /\ status = "idle"
    /\ plays = <<>>
    /\ pi = 1
    /\ times = <<>>
    /\ rows = <<>>
    /\ pc = "idle"

\* the button is clicked with at most n lines in the text area and the file
Click(n) ==
    /\ status # "running"
    /\ \E text \in SeqsUpTo(RawLines, n) :
         \E file \in SeqsUpTo(RawLines, n - Len(text)) :
            /\ game_pks' = Gather(text, file)
            /\ status' = IF Gather(text, file) = <<>> THEN "no_input" ELSE "running"
    /\ runs' = runs + 1
    /\ processed' = 0
    /\ result_data' = <<>>
    /\ display' = NoDisplay
    /\ download' = NoDownload
    /\ UNCHANGED <<variant, jsonErrorCaught, cache, fetches, foldVars>>

\* the first click of a session
GetInfo == runs = 0 /\ Click(MaxPks)

\* any click of a session
GetInfoAgain == runs < MaxRuns /\ Click(MaxSessionPks)

Looping == status = "running" /\ processed < Len(game_pks)
Gp == game_pks[processed + 1]

\* process_game(gp) is answered by st.cache_data
CachedGame ==
    /\ Looping
    /\ cache[Gp] # Uncached
    /\ result_data' = Collect(result_data, Gp, cache[Gp][1], variant)
    /\ processed' = processed + 1
    /\ UNCHANGED <<variant, jsonErrorCaught, runs, game_pks, cache, fetches,
                   display, download, status, foldVars>>

\* requests.get or raise_for_status raises a RequestException: process_game
\* returns None, which is memoized
FetchRaises ==
    /\ Looping
    /\ cache[Gp] = Uncached
    /\ \E kind \in {"ConnectionError", "HTTPError"} :
          cache' = [cache EXCEPT ![Gp] = <<ReturnedNone>>]
    /\ fetches' = [fetches EXCEPT ![Gp] = @ + 1]
    /\ result_data' = Collect(result_data, Gp, ReturnedNone, variant)
    /\ processed' = processed + 1
    /\ UNCHANGED <<variant, jsonErrorCaught, runs, game_pks, display, download,
                   status, foldVars>>

\* resp.json() raises on a body that is not JSON: a RequestException in
\* requests >= 2.27 (None is returned), a plain ValueError before (nothing
\* catches it and the script run ends)
FetchNotJson ==
    /\ Looping
    /\ cache[Gp] = Uncached
    /\ fetches' = [fetches EXCEPT ![Gp] = @ + 1]
    /\ IF jsonErrorCaught
       THEN /\ cache' = [cache EXCEPT ![Gp] = <<ReturnedNone>>]
            /\ processed' = processed + 1
            /\ status' = status
       ELSE /\ status' = "crashed"
            /\ UNCHANGED <<cache, processed>>
    /\ UNCHANGED <<variant, jsonErrorCaught, runs, game_pks, result_data, display,
                   download, foldVars>>

\* resp.json() returns JSON that is no object: data.get raises AttributeError,
\* which "except requests.RequestException" does not catch
FetchNotADict ==
    /\ Looping
    /\ cache[Gp] = Uncached
    /\ \E data \in Datas : ~data.isDict
    /\ fetches' = [fetches EXCEPT ![Gp] = @ + 1]
    /\ status' = "crashed"
    /\ UNCHANGED <<variant, jsonErrorCaught, runs, game_pks, cache, processed,
                   result_data, display, download, foldVars>>

\* the fetch succeeds: the frame is built, memoized and collected
FetchOk ==
    /\ Looping
    /\ cache[Gp] = Uncached
    /\ \E data \in Datas :
          /\ data.isDict
          /\ cache' = [cache EXCEPT ![Gp] = <<Returned(Frame(Gp, data, variant))>>]
          /\ result_data' =
                Collect(result_data, Gp, Returned(Frame(Gp, data, variant)), variant)
    /\ fetches' = [fetches EXCEPT ![Gp] = @ + 1]
    /\ processed' = processed + 1
    /\ UNCHANGED <<variant, jsonErrorCaught, runs, game_pks, display, download,
                   status, foldVars>>

\* key=lambda x: int(x[0]) and key=lambda x: x[0]
IntKeyLess(a, b) == IntOf(a.gp) < IntOf(b.gp)
StrKeyLess(a, b) == StrLess(a.gp, b.gp)

\* try: sort by int(gp); except ValueError: sort by gp.  A ValueError of any
\* key leaves the list as it was, and the whole list is sorted as strings.
SortResults(rd) ==
    IF \A i \in 1..Len(rd) : IsIntLiteral(rd[i].gp)
    THEN SortBy(rd, [i \in 1..Len(rd) |-> [j \in 1..Len(rd) |-> IntKeyLess(rd[i], rd[j])]])
    ELSE SortBy(rd, [i \in 1..Len(rd) |-> [j \in 1..Len(rd) |-> StrKeyLess(rd[i], rd[j])]])

\* the list the display and the export read: sorted in the app, as
\* collected in the export script
FinalResults(rd, v) == IF v = "app" THEN SortResults(rd) ELSE rd

\* df2["order"] = df2["halfInning"].map({"Top": 0, "Bottom": 1}); any other
\* label maps to NaN, which sort_values puts last
Order(label) == IF label = Top THEN 0 ELSE IF label = Bottom THEN 1 ELSE 2

OrderLess(a, b) ==
    \/ a.inning < b.inning
    \/ a.inning = b.inning /\ Order(a.halfInning) < Order(b.halfInning)

\* df2: sorted by inning and order, with the columns InningHalf, startTime,
\* endTime
Preview(df) ==
    LET sorted ==
            SortBy(df, [i \in 1..Len(df) |-> [j \in 1..Len(df) |-> OrderLess(df[i], df[j])]])
    IN  [i \in 1..Len(sorted) |->
            [InningHalf |-> IntToStr(sorted[i].inning) \o <<32>> \o sorted[i].halfInning,
             startTime |-> sorted[i].startTime,
             endTime |-> sorted[i].endTime]]

\* pd.concat(result_dfs, ignore_index=True)
RECURSIVE Concat(_)
Concat(rd) == IF rd = <<>> THEN <<>> ELSE Head(rd).df \o Concat(Tail(rd))

\* st.tabs and st.dataframe
DisplayOf(rd, v) ==
    IF v = "app"
    THEN IF Len(rd) > 1
         THEN [tabs |-> [i \in 1..Len(rd) |-> rd[i].gp],
               frames |-> [i \in 1..Len(rd) |-> Preview(rd[i].df)]]
         ELSE [tabs |-> <<>>, frames |-> <<Preview(rd[1].df)>>]
    ELSE [tabs |-> <<>>, frames |-> <<Concat(rd)>>]

\* the sheet name of the export script
Innings == <<73, 110, 110, 105, 110, 103, 115>>

\* st.download_button: a CSV of the one frame, or a workbook with one
\* to_excel call per entry (app) or one for the combined frame (export)
DownloadOf(rd, pks, v) ==
    IF v = "app"
    THEN IF Len(rd) = 1
         THEN [kind |-> "csv", file_name |-> <<rd[1].gp, "_innings_times.csv">>,
               csv |-> Preview(rd[1].df), sheets |-> <<>>]
         ELSE [kind |-> "xlsx", file_name |-> <<"innings_times_by_game.xlsx">>,
               csv |-> <<>>,
               sheets |-> [i \in 1..Len(rd) |->
                             [sheet_name |-> rd[i].gp, rows |-> Preview(rd[i].df)]]]
    ELSE IF Len(rd) = 1
         THEN [kind |-> "csv", file_name |-> <<pks[1], "_innings_times.csv">>,
               csv |-> Concat(rd), sheets |-> <<>>]
         ELSE [kind |-> "xlsx", file_name |-> <<"innings_times.xlsx">>,
               csv |-> <<>>,
               sheets |-> <<[sheet_name |-> Innings, rows |-> Concat(rd)]>>]

\* the loop is over: sort, preview and offer the download, or report that
\* there is no data
Finish ==
    /\ status = "running"
    /\ processed = Len(game_pks)
    /\ result_data' = FinalResults(result_data, variant)
    /\ IF result_data # <<>>
       THEN /\ display' = DisplayOf(FinalResults(result_data, variant), variant)
            /\ download' =
                  DownloadOf(FinalResults(result_data, variant), game_pks, variant)
            /\ status' = "shown"
       ELSE /\ status' = "no_data"
            /\ UNCHANGED <<display, download>>
    /\ UNCHANGED <<variant, jsonErrorCaught, runs, game_pks, cache, fetches,
                   processed, foldVars>>

Next ==
    \/ GetInfo
    \/ CachedGame
    \/ FetchRaises
    \/ FetchNotJson
    \/ FetchNotADict
    \/ FetchOk
    \/ Finish

Spec == InitBatch /\ [][Next]_vars

NextSession ==
    \/ GetInfoAgain
    \/ CachedGame
    \/ FetchRaises
    \/ FetchNotJson
    \/ FetchNotADict
    \/ FetchOk
    \/ Finish

SpecSession == InitBatch /\ [][NextSession]_vars

(***************************************************************************)
(* What the claims speak of, stated without the operators of the model.    *)
(***************************************************************************)
\* a play record with all four fields
Complete(p) ==
    /\ p.inning # None /\ p.halfInning # None
    /\ p.startTime # None /\ p.endTime # None

KeyOf(p) == <<p.inning[1], p.halfInning[1]>>

\* the complete plays of ps with key k
PlaysOfKey(ps, k) ==
    {i \in 1..Len(ps) : Complete(ps[i]) /\ KeyOf(ps[i]) = k}

KeysOf(ps) == {KeyOf(ps[i]) : i \in {j \in 1..Len(ps) : Complete(ps[j])}}

\* the least and the greatest of a non-empty set of str
MinStr(S) == CHOOSE x \in S : \A y \in S : ~StrLess(y, x)
MaxStr(S) == CHOOSE x \in S : \A y \in S : ~StrLess(x, y)

\* a dict as the set of its (key, start, end) entries
Windows(t) == {t[i] : i \in 1..Len(t)}

\* the orders in which the plays ps can arrive
Arrivals(ps) ==
    {[i \in 1..Len(ps) |-> ps[f[i]]] :
        f \in {g \in [1..Len(ps) -> 1..Len(ps)] :
                 \A a, b \in 1..Len(ps) : a # b => g[a] # g[b]}}

\* ps without its incomplete records
CompleteOnly(ps) == SelectSeq(ps, Complete)

\* C1: After the fold, every (inning, halfInning) key with a complete play
\* maps to the least startTime and the greatest endTime of the complete
\* plays with that key, and the windows are the same for every order of
\* arrival of the plays.
C1_MinMaxWindows ==
    pc = "done" =>
        /\ \A k \in KeysOf(plays) :
              /\ Cardinality({i \in 1..Len(times) : times[i].key = k}) = 1
              /\ \A i \in 1..Len(times) :
                    times[i].key = k =>
                        /\ times[i].start =
                              MinStr({plays[j].startTime[1] : j \in PlaysOfKey(plays, k)})
                        /\ times[i].end =
                              MaxStr({plays[j].endTime[1] : j \in PlaysOfKey(plays, k)})
        /\ \A q \in Arrivals(plays) : Windows(Aggregate(q)) = Windows(times)

\* C1 witness: a key was widened by a later play with an earlier start, and
\* by another with a later end
C1_Witness ==
    /\ pc = "done"
    /\ Len(plays) = 3
    /\ \A i \in 1..3 : Complete(plays[i]) /\ KeyOf(plays[i]) = <<1, top>>
    /\ StrLess(plays[2].startTime[1], plays[1].startTime[1])
    /\ StrLess(plays[2].endTime[1], plays[3].endTime[1])
    /\ times = <<[key |-> <<1, top>>, start |-> T0, end |-> T3]>>

\* C2: At every point of the fold the dict is the one the complete plays
\* seen so far give on their own: an incomplete record creates no key and
\* moves no start or end.
C2_IncompleteIgnored ==
    pc \in {"fold", "done"} =>
        times = Aggregate(CompleteOnly(SubSeq(plays, 1, pi - 1)))

\* C2 witness: incomplete records with an extreme start or end arrived
\* after the window of their key was opened, and the fold is over
C2_Witness ==
    /\ pc = "done"
    /\ Len(plays) = 3
    /\ plays[1] = Play(Some(1), Some(top), Some(T2), Some(T3))
    /\ plays[2] = Play(Some(1), Some(top), Some(T0), None)
    /\ plays[3] = Play(Some(1), None, Some(T0), Some(T3))
    /\ times = <<[key |-> <<1, top>>, start |-> T2, end |-> T3]>>

\* C3: process_game returns exactly one row per distinct (inning, halfInning)
\* pair of the complete plays and no other row, and no two rows carry the
\* same inning with the same halfInning as written in the row.
C3_OneRowPerPair ==
    pc = "done" =>
        /\ Len(rows) = Cardinality(KeysOf(plays))
        /\ \A k \in KeysOf(plays) :
              Cardinality({i \in 1..Len(rows) :
                    rows[i].inning = k[1] /\ rows[i].halfInning = Title(k[2])}) >= 1
        /\ \A i, j \in 1..Len(rows) :
              (rows[i].inning = rows[j].inning
                 /\ rows[i].halfInning = rows[j].halfInning) => i = j

\* C9: If every complete play has startTime <= endTime, then after every
\* step of the fold every window has start <= end.
C9_StartBeforeEnd ==
    (\A i \in 1..Len(plays) :
        Complete(plays[i]) => ~StrLess(plays[i].endTime[1], plays[i].startTime[1]))
    => \A i \in 1..Len(times) : ~StrLess(times[i].end, times[i].start)

\* C9 witness: start and end of one window were each moved by a different
\* play, every play having startTime <= endTime
C9_Witness ==
    /\ pc = "fold"
    /\ pi = 3
    /\ plays[1] = Play(Some(1), Some(bottom), Some(T2), Some(T3))
    /\ plays[2] = Play(Some(1), Some(bottom), Some(T0), Some(T1))
    /\ \A i \in 1..Len(plays) :
          Complete(plays[i]) => ~StrLess(plays[i].endTime[1], plays[i].startTime[1])
    /\ times = <<[key |-> <<1, bottom>>, start |-> T0, end |-> T3]>>

(***************************************************************************)
(* The claims about the batch driver.                                      *)
(***************************************************************************)
Occurrences(ids, g) == Cardinality({i \in 1..Len(ids) : ids[i] = g})

\* the GamePk of a collected entry, read from its frame
EntryPk(e) == e.df[1].gamePk

ResultIds == [i \in 1..Len(result_data) |-> EntryPk(result_data[i])]

\* process_game(g) has returned a frame with at least one row
HasRows(g) == cache[g] # Uncached /\ ~cache[g][1].none /\ cache[g][1].df # <<>>

\* C4: A failed fetch never stops the batch: when the script run is over,
\* no identifier after a failed one is left unprocessed, an identifier whose
\* fetch failed has no entry, and one whose fetch gave rows has its entry.
\* (Stated for a requests library whose JSON decode error is a
\* RequestException, so that the outcome does not rest on its version.)
C4_FailureNeverStopsBatch ==
    (jsonErrorCaught /\ status \in {"shown", "no_data", "crashed"}) =>
        /\ status = "crashed" => processed + 1 = Len(game_pks)
        /\ status # "crashed" => processed = Len(game_pks)
        /\ \A g \in GamePks :
              (cache[g] # Uncached /\ cache[g][1].none) => Occurrences(ResultIds, g) = 0
        /\ \A i \in 1..Len(game_pks) :
              (status # "crashed" /\ HasRows(game_pks[i]))
                  => Occurrences(ResultIds, game_pks[i]) > 0

\* C5: After the batch, the collected results are in ascending order of
\* int(identifier) when every collected identifier parses as an integer,
\* and in ascending string order of the identifiers otherwise.
C5_SortedByIdentifier ==
    status = "shown" =>
        IF \A i \in 1..Len(ResultIds) : IsIntLiteral(ResultIds[i])
        THEN \A i, j \in 1..Len(ResultIds) :
                i < j => IntOf(ResultIds[i]) <= IntOf(ResultIds[j])
        ELSE \A i, j \in 1..Len(ResultIds) :
                i < j => ~StrLess(ResultIds[j], ResultIds[i])

\* the (startTime, endTime) pairs of a frame
Spans2(f) == {<<f[i].startTime, f[i].endTime>> : i \in 1..Len(f)}

\* C6: A CSV is offered exactly when the batch holds one result; with more
\* than one, a workbook with one sheet per result, named by the result's
\* identifier and holding that game's rows only; with none, no download.
C6_ExportShape ==
    /\ download.kind = "csv" <=> (status = "shown" /\ Len(result_data) = 1)
    /\ (status = "shown" /\ Len(result_data) > 1) =>
          /\ download.kind = "xlsx"
          /\ Len(download.sheets) = Len(result_data)
          /\ \A i \in 1..Len(result_data) :
                /\ i <= Len(download.sheets)
                /\ download.sheets[i].sheet_name = EntryPk(result_data[i])
                /\ Len(download.sheets[i].rows) = Len(result_data[i].df)
                /\ Spans2(download.sheets[i].rows) = Spans2(result_data[i].df)
    /\ status # "shown" => download.kind = "none"

\* the rows of g in a frame that keeps the gamePk column
RowsOfPk(f, g) == {i \in 1..Len(f) : f[i].gamePk = g}

IsRowOf(r, n, L) ==
    IF "InningHalf" \in DOMAIN r
    THEN r.InningHalf = IntToStr(n) \o <<32>> \o L
    ELSE r.inning = n /\ r.halfInning = L

\* inning ascending, and Top before Bottom within an inning
Ordered(f) ==
    \A i, j \in 1..Len(f) :
        \A n, m \in {1, 2} :
            \A L, M \in {Top, Bottom} :
                (i < j /\ IsRowOf(f[i], n, L) /\ IsRowOf(f[j], m, M)) =>
                    (n < m \/ (n = m /\ ~(L = Bottom /\ M = Top)))

\* the rows of each game as handed to display and export: the previews, the
\* CSV and the sheets of the app; the blocks of the combined frame of the
\* export script
HandedFrames ==
    IF variant = "app"
    THEN {display.frames[i] : i \in 1..Len(display.frames)}
           \cup {download.csv}
           \cup {download.sheets[i].rows : i \in 1..Len(download.sheets)}
    ELSE {result_data[i].df : i \in 1..Len(result_data)}

\* C8: For every game result, the rows handed to display and export are in
\* ascending order of inning, the Top row before the Bottom row of an inning.
C8_RowsOrdered ==
    status = "shown" => \A f \in HandedFrames : Ordered(f)

\* C10: Within one session the fetch is issued at most once per distinct
\* identifier, a failed first fetch included.
C10_FetchedAtMostOnce ==
    \A g \in GamePks : fetches[g] <= 1

(***************************************************************************)
(* What mlb_inning_times_app.py alone guarantees of C5, C6 and C8.         *)
(***************************************************************************)
AppSortedByIdentifier ==
    variant = "app" =>
        /\ C5_SortedByIdentifier
        /\ (status = "shown" /\ game_pks = <<pk10, pk2, pk30>> /\ Len(result_data) = 3)
              => ResultIds = <<pk2, pk10, pk30>>
        /\ (status = "shown" /\ game_pks = <<pk10, pkabc, pk2>> /\ Len(result_data) = 3)
              => ResultIds = <<pk10, pk2, pkabc>>

\* the two batches of the examples are collected whole
AppSortExamplesReached ==
    /\ variant = "app"
    /\ status = "shown"
    /\ game_pks \in {<<pk10, pk2, pk30>>, <<pk10, pkabc, pk2>>}
    /\ Len(result_data) = 3

AppExportShape == variant = "app" => C6_ExportShape

AppRowsOrdered == variant = "app" => C8_RowsOrdered

====
